---------------------------- MODULE Spec2Model ----------------------------
(***************************************************************************)
(* MedBot: the knowledge-graph store built by ingestion (build_graph.py),  *)
(* the SPARQL query engine that ranks diseases by symptom overlap          *)
(* (query_engine.py), the response generator with its templated fallback   *)
(* (llm_engine.py) and the Streamlit session that loads them (main.py).    *)
(*                                                                         *)
(* Strings are sequences of one-character strings, so that the string      *)
(* operations of the code (replace, lower) are computed, not assumed.      *)
(* RDF terms are sequences too: a URI is its prefix followed by the        *)
(* characters of its local name, a literal is "lit:" followed by its       *)
(* characters.  The graph is a set of triples <<s, p, o>>.                 *)
(***************************************************************************)
EXTENDS Integers, Sequences, FiniteSets, TLC

VARIABLES
    graph,      \* MedicalKnowledgeGraph.graph: the set of loaded triples
    call,       \* the last call served: <<operation, argument>>
    ret,        \* what it returned: [raised |-> BOOLEAN, value |-> ...]
    unranked,   \* query_diseases_by_symptoms: `results` as passed to rank_diseases
    llm,        \* MedBotRAG.llm: None, or the client of the text generator
    conversation_history,   \* MedBotRAG.conversation_history
    invoked,    \* generate_response: how llm.invoke ended in the last call
    files,      \* the files at DATA_PATH and ONTOLOGY_PATH
    medical_data,   \* SymptomExtractor.medical_data
    session,    \* st.session_state
    page,       \* what the last rerun of the page did and showed
    symptoms_dict,  \* SymptomExtractor.symptoms_dict: <<key, value>> in dict order
    nlp         \* SymptomExtractor.nlp_fr, nlp_en: whether each model is loaded

vars == <<graph, call, ret, unranked, llm, conversation_history, invoked,
          files, medical_data, session, page, symptoms_dict, nlp>>
storeVars == <<graph, unranked>>
ragVars == <<llm, conversation_history, invoked>>
appVars == <<files, medical_data, session, page, symptoms_dict, nlp>>

-----------------------------------------------------------------------------
(* Bounds of the model *)

MaxDiseases == 2    \* disease records in the source data
MaxInput == 2       \* tokens in one symptom_names list
MaxList == 3        \* dicts in a list handed to rank_diseases directly
MaxResults == 2     \* dicts in the query_results handed to generate_response
MaxHistory == 4     \* entries of conversation_history
MaxMessages == 2    \* entries of st.session_state.messages
MaxConversations == 1   \* st.session_state.conversation_count
MaxStr == 4          \* characters of a string handed to _normalize_symptom_name
MaxTokens == 3       \* words of a text handed to detect_language
MaxWords == 2        \* phrases of a text handed to extract_symptoms

-----------------------------------------------------------------------------
(* Strings *)

\* str.replace(c, r) for a one-character pattern c; r is a string
RECURSIVE Replace(_, _, _)
Replace(s, c, r) ==
    IF s = <<>> THEN <<>>
    ELSE (IF Head(s) = c THEN r ELSE <<Head(s)>>) \o Replace(Tail(s), c, r)

LowerChar(c) ==
    CASE c = "A" -> "a" [] c = "B" -> "b" [] c = "C" -> "c" [] c = "D" -> "d"
      [] c = "E" -> "e" [] c = "F" -> "f" [] c = "G" -> "g" [] c = "H" -> "h"
      [] c = "I" -> "i" [] c = "J" -> "j" [] c = "K" -> "k" [] c = "L" -> "l"
      [] c = "M" -> "m" [] c = "N" -> "n" [] c = "O" -> "o" [] c = "P" -> "p"
      [] c = "Q" -> "q" [] c = "R" -> "r" [] c = "S" -> "s" [] c = "T" -> "t"
      [] c = "U" -> "u" [] c = "V" -> "v" [] c = "W" -> "w" [] c = "X" -> "x"
      [] c = "Y" -> "y" [] c = "Z" -> "z" [] OTHER -> c

\* str.lower()
\* (the concatenation makes the value a tuple, which TLC reads faster)
Lower(s) == <<>> \o [i \in 1..Len(s) |-> LowerChar(s[i])]

UpperChar(c) ==
    CASE c = "a" -> "A" [] c = "b" -> "B" [] c = "c" -> "C" [] c = "d" -> "D"
      [] c = "e" -> "E" [] c = "f" -> "F" [] c = "g" -> "G" [] c = "h" -> "H"
      [] c = "i" -> "I" [] c = "j" -> "J" [] c = "k" -> "K" [] c = "l" -> "L"
      [] c = "m" -> "M" [] c = "n" -> "N" [] c = "o" -> "O" [] c = "p" -> "P"
      [] c = "q" -> "Q" [] c = "r" -> "R" [] c = "s" -> "S" [] c = "t" -> "T"
      [] c = "u" -> "U" [] c = "v" -> "V" [] c = "w" -> "W" [] c = "x" -> "X"
      [] c = "y" -> "Y" [] c = "z" -> "Z" [] OTHER -> c

\* str.upper()
Upper(s) == [i \in 1..Len(s) |-> UpperChar(s[i])]

\* str(n) for an integer n >= 0
RECURSIVE Digits(_)
Digits(n) ==
    LET d == <<"0", "1", "2", "3", "4", "5", "6", "7", "8", "9">>
    IN IF n < 10 THEN <<d[n + 1]>> ELSE Digits(n \div 10) \o <<d[(n % 10) + 1]>>

SeqRange(s) == {s[i] : i \in 1..Len(s)}

Reverse(s) == <<>> \o [i \in 1..Len(s) |-> s[Len(s) + 1 - i]]

\* `sub in text`
Contains(sub, text) ==
    \E needle \in {sub}, haystack \in {text} :
        \/ needle = <<>>
        \/ \E i \in 1..(Len(haystack) - Len(needle) + 1) :
               /\ haystack[i] = needle[1]
               /\ SubSeq(haystack, i, i + Len(needle) - 1) = needle

\* the sequences over S of length at most n
SeqsUpTo(S, n) == UNION {[1..k -> S] : k \in 0..n}

-----------------------------------------------------------------------------
(* The vocabulary of the bounded source data *)

fr == <<"f", "r">>
en == <<"e", "n">>
rash == <<"r", "a", "s", "h">>
itch == <<"i", "t", "c", "h">>
cough == <<"c", "o", "u", "g", "h">>

flu == <<"f", "l", "u">>
hep_b == <<"h", "e", "p", " ", "b">>

low == <<"l", "o", "w">>
medium == <<"m", "e", "d", "i", "u", "m">>
high == <<"h", "i", "g", "h">>
High == <<"H", "i", "g", "h">>
urgent == <<"u", "r", "g", "e", "n", "t">>
empty == <<>>

Dermatology == <<"D", "e", "r", "m">>
Cardiology == <<"C", "a", "r", "d">>
SkinDept == <<"S", "k", "i", "n", " ", "&", " ", "H">>
HeartDept == <<"H", "e", "a", "r", "t">>
BuildingA == <<"A">>
Floor1 == <<"1">>

-----------------------------------------------------------------------------
(* RDF terms and the graph *)

Uri(prefix, local) == <<prefix>> \o local
\* Literal(s) for a string s
Lit(s) == <<"lit:">> \o s
\* str(term) of a literal
LitStr(t) == Tail(t)
\* a variable an OPTIONAL pattern left unbound (row.x is None)
Unbound == <<>>
\* bool(term) as in `str(row.x) if row.x else default`: None and the empty literal are false
Truthy(t) == t # Unbound /\ LitStr(t) # <<>>

RDF_type == <<"rdf:type">>
MED_Disease == <<"med:Disease">>
MED_Symptom == <<"med:Symptom">>
MED_Specialty == <<"med:Specialty">>
MED_MedicalSpecialty == <<"med:MedicalSpecialty">>
MED_Department == <<"med:Department">>
MED_diseaseName == <<"med:diseaseName">>
MED_urgencyLevel == <<"med:urgencyLevel">>
MED_description == <<"med:description">>
MED_hasSymptom == <<"med:hasSymptom">>
MED_symptomName == <<"med:symptomName">>
MED_severityLevel == <<"med:severityLevel">>
MED_treatedBy == <<"med:treatedBy">>
MED_specialtyName == <<"med:specialtyName">>
MED_belongsToDepartment == <<"med:belongsToDepartment">>
MED_departmentName == <<"med:departmentName">>
MED_location == <<"med:location">>
MED_floor == <<"med:floor">>
MED_availableSlots == <<"med:availableSlots">>
MED_hasPrecaution == <<"med:hasPrecaution">>

\* the objects o of the triples (s, p, o) of g
Objects(g, s, p) == {t[3] : t \in {u \in g : u[1] = s /\ u[2] = p}}
\* the subjects s of the triples (s, p, o) of g
Subjects(g, p, o) == {t[1] : t \in {u \in g : u[2] = p /\ u[3] = o}}
\* what an OPTIONAL { s p ?x } binds ?x to
Optional(S) == IF S = {} THEN {Unbound} ELSE S

-----------------------------------------------------------------------------
(* Ingestion: build_graph.populate_knowledge_graph *)

DeptSafe(name) == Replace(Replace(name, " ", <<"_">>), "&", <<"a", "n", "d">>)
DeptUri(name) == Uri("inst:Dept_", DeptSafe(name))
DisSafe(name) == Replace(Replace(Replace(name, " ", <<"_">>), "(", <<>>), ")", <<>>)
DiseaseUri(name) == Uri("inst:Disease_", DisSafe(name))
SpecUri(name) == Uri("inst:Spec_", Replace(name, " ", <<"_">>))
SymSafe(name) ==
    Replace(Replace(Replace(Replace(name, " ", <<"_">>), "(", <<>>), ")", <<>>), "'", <<>>)
SymUri(name) == Uri("inst:Sym_", SymSafe(name))

\* step 1: one department record
DepartmentTriples(d) ==
    { <<DeptUri(d.Department), RDF_type, MED_Department>>,
      <<DeptUri(d.Department), MED_departmentName, Lit(d.Department)>>,
      <<DeptUri(d.Department), MED_location, Lit(d.Location)>>,
      <<DeptUri(d.Department), MED_floor, Lit(d.Floor)>> }

\* the symptoms of one disease record
SymptomTriples(dis_uri, symptoms) ==
    UNION { { <<SymUri(s.name), RDF_type, MED_Symptom>>,
              <<SymUri(s.name), MED_symptomName, Lit(s.name)>>,
              <<SymUri(s.name), MED_severityLevel, Lit(s.severity)>>,
              <<dis_uri, MED_hasSymptom, SymUri(s.name)>> } : s \in symptoms }

\* the specialty of one disease record, created when its name is seen first
SpecialtyTriples(d, dept_cache) ==
    { <<SpecUri(d.specialty), RDF_type, MED_MedicalSpecialty>>,
      <<SpecUri(d.specialty), MED_specialtyName, Lit(d.specialty)>> }
    \cup (IF d.department \in dept_cache
          THEN { <<SpecUri(d.specialty), MED_belongsToDepartment, DeptUri(d.department)>>,
                 <<DeptUri(d.department), MED_availableSlots, Lit(d.available_slots)>> }
          ELSE {})

\* step 2: one disease record, given the specialty names seen so far
DiseaseTriples(d, dept_cache, spec_cache) ==
    { <<DiseaseUri(d.disease), RDF_type, MED_Disease>>,
      <<DiseaseUri(d.disease), MED_diseaseName, Lit(d.disease)>>,
      <<DiseaseUri(d.disease), MED_urgencyLevel, Lit(d.urgency)>> }
    \cup (IF d.specialty \notin spec_cache THEN SpecialtyTriples(d, dept_cache) ELSE {})
    \cup { <<DiseaseUri(d.disease), MED_treatedBy, SpecUri(d.specialty)>> }
    \cup SymptomTriples(DiseaseUri(d.disease), d.symptoms)

\* the loop over data['diseases']: the records from position i on
RECURSIVE PopulateDiseases(_, _, _, _)
PopulateDiseases(diseases, i, dept_cache, spec_cache) ==
    IF i > Len(diseases) THEN {}
    ELSE DiseaseTriples(diseases[i], dept_cache, spec_cache)
         \cup PopulateDiseases(diseases, i + 1, dept_cache,
                               spec_cache \cup {diseases[i].specialty})

populate_knowledge_graph(data) ==
    UNION {DepartmentTriples(d) : d \in data.departments}
    \cup PopulateDiseases(data.diseases, 1,
                          {d.Department : d \in data.departments}, {})

-----------------------------------------------------------------------------
(* The bounded source data (consolidated_medical_data.json) *)

Departments == { [Department |-> SkinDept, Location |-> BuildingA, Floor |-> Floor1] }

SymptomRecord(n) == [name |-> n, severity |-> <<"3">>]

\* disease records that differ in name, symptoms and urgency
RankingRecords ==
    [ disease : {flu, hep_b},
      symptoms : { {SymptomRecord(rash)}, {SymptomRecord(itch)},
                   {SymptomRecord(rash), SymptomRecord(itch)} },
      urgency : {low, High, urgent, empty},
      specialty : {Dermatology},
      department : {SkinDept},
      available_slots : {<<"5">>} ]

\* disease records that differ in name, specialty and department
EnrichmentRecords ==
    [ disease : {flu, hep_b},
      symptoms : { {SymptomRecord(rash)} },
      urgency : {low, empty},
      specialty : {Dermatology, Cardiology},
      department : {SkinDept, HeartDept},
      available_slots : {<<"5">>} ]

SourceData(records) ==
    [ diseases : SeqsUpTo(records, MaxDiseases), departments : {Departments} ]

\* the tokens a caller may pass: the symptom names of the data and one unknown to it
Tokens == {rash, itch, cough}

-----------------------------------------------------------------------------
(* Floats.  The scores of the code are the floats (k / n) * 10 with integers *)
(* 0 <= k <= n; they are kept exact here as fractions num / den, den > 0:    *)
(* two such floats are equal, or ordered, exactly when the fractions are.    *)

Float(n, d) == [num |-> n, den |-> d]
FloatEq(a, b) == a.num * b.den = b.num * a.den
FloatLess(a, b) == a.num * b.den < b.num * a.den
FloatLeq(a, b) == a.num * b.den <= b.num * a.den
FloatTimes(a, k) == Float(a.num * k, a.den)
FloatMin(a, b) == IF FloatLess(b, a) THEN b ELSE a

-----------------------------------------------------------------------------
(* Iteration orders.  The order in which rdflib yields the solutions of a   *)
(* query is not fixed by the code: every order is possible.                 *)

RECURSIVE Perms(_)
Perms(S) ==
    IF S = {} THEN {<<>>}
    ELSE UNION {{<<x>> \o p : p \in Perms(S \ {x})} : x \in S}

\* the elements of the sequence s that are in the set S, in the order of s
RECURSIVE Filter(_, _)
Filter(s, S) ==
    IF s = <<>> THEN <<>>
    ELSE (IF Head(s) \in S THEN <<Head(s)>> ELSE <<>>) \o Filter(Tail(s), S)

-----------------------------------------------------------------------------
(* query_engine.MedicalKnowledgeGraph *)

Returned(v) == [raised |-> FALSE, value |-> v]
Raised == [raised |-> TRUE, value |-> <<>>]
\* Python's None, and a value that is not None
None == <<>>
Some(v) == <<v>>

\* the solutions (?symptom, ?symptomName) of the graph
SymptomSolutions(g) == {<<t[1], t[3]>> : t \in {u \in g : u[2] = MED_symptomName}}

\* _get_disease_symptoms; `order` lists the solutions as the graph yields them
get_disease_symptoms(g, disease_uri, order) ==
    LET linked == {sol \in SymptomSolutions(g) :
                       sol[1] \in Objects(g, disease_uri, MED_hasSymptom)}
        sols == Filter(order, linked)
    IN [i \in 1..Len(sols) |-> LitStr(sols[i][2])]

\* a variant of _calculate_match_score without the division
CalculateMatchScoreNoRatio(user_symptoms, disease_symptoms) ==
    Float(Cardinality(SeqRange(user_symptoms) \cap SeqRange(disease_symptoms)) * 10, 1)
\* a variant that divides by the number of symptoms of the disease
CalculateMatchScoreOverDisease(user_symptoms, disease_symptoms) ==
    IF user_symptoms = <<>> \/ disease_symptoms = <<>> THEN Float(0, 1)
    ELSE Float(Cardinality(SeqRange(user_symptoms) \cap SeqRange(disease_symptoms)) * 10,
               Len(disease_symptoms))
\* _calculate_match_score
calculate_match_score(user_symptoms, disease_symptoms) ==
    IF user_symptoms = <<>> \/ disease_symptoms = <<>> THEN Float(0, 1)
    ELSE LET matched == SeqRange(user_symptoms) \cap SeqRange(disease_symptoms)
             score == Float(Cardinality(matched) * 10, Len(user_symptoms))
         IN FloatMin(score, Float(10, 1))

\* urgency_priority.get(urgency.lower(), 2)
urgency_priority(u) ==
    CASE Lower(u) = high -> 3
      [] Lower(u) = medium -> 2
      [] Lower(u) = low -> 1
      [] OTHER -> 2

\* sort_key of rank_diseases; a disease is a dict, its keys DOMAIN disease
sort_key(disease) ==
    [ match_score |-> IF "match_score" \in DOMAIN disease
                      THEN disease.match_score ELSE Float(0, 1),
      urgency_score |-> urgency_priority(IF "urgency" \in DOMAIN disease
                                         THEN disease.urgency ELSE medium) ]

\* the order of Python on the key tuples (match_score, urgency_score)
KeyLess(a, b) ==
    \/ FloatLess(a.match_score, b.match_score)
    \/ FloatEq(a.match_score, b.match_score) /\ a.urgency_score < b.urgency_score

\* list.sort: a stable ascending sort. x goes after the elements that are not greater
RECURSIVE InsertSorted(_, _)
InsertSorted(sorted, x) ==
    IF sorted = <<>> THEN <<x>>
    ELSE IF KeyLess(sort_key(x), sort_key(Head(sorted))) THEN <<x>> \o sorted
    ELSE <<Head(sorted)>> \o InsertSorted(Tail(sorted), x)

RECURSIVE StableSort(_)
StableSort(l) ==
    IF l = <<>> THEN <<>>
    ELSE InsertSorted(StableSort(SubSeq(l, 1, Len(l) - 1)), l[Len(l)])

\* a variant of rank_diseases that sorts without reverse=True
RankDiseasesAscending(diseases, user_symptoms) ==
    StableSort(diseases)
\* a variant that sorts in ascending order and reverses the outcome
RankDiseasesReversedAfter(diseases, user_symptoms) ==
    Reverse(StableSort(diseases))
\* rank_diseases: diseases.sort(key=sort_key, reverse=True), which reverses the
\* list, sorts it stably in ascending order and reverses it again
rank_diseases(diseases, user_symptoms) ==
    Reverse(StableSort(Reverse(diseases)))

\* FILTER(?symptomName IN ("s1", "s2", ...)): the literals the filter text denotes,
\* for tokens without a quote or a backslash
symptom_filter(symptom_names) == {Lit(s) : s \in SeqRange(symptom_names)}

\* a variant of the SELECT without the FILTER
QueryRowsAllDiseases(g, symptom_names) ==
    UNION { [ disease : {d},
              diseaseName : Objects(g, d, MED_diseaseName),
              description : Optional(Objects(g, d, MED_description)),
              urgency : Optional(Objects(g, d, MED_urgencyLevel)) ]
            : d \in Subjects(g, RDF_type, MED_Disease) }
\* a variant whose diseases have every name of the filter
QueryRowsAllSymptomsRequired(g, symptom_names) ==
    UNION { [ disease : {d},
              diseaseName : Objects(g, d, MED_diseaseName),
              description : Optional(Objects(g, d, MED_description)),
              urgency : Optional(Objects(g, d, MED_urgencyLevel)) ]
            : d \in { x \in Subjects(g, RDF_type, MED_Disease) :
                        \A n \in symptom_filter(symptom_names) :
                            \E sym \in Objects(g, x, MED_hasSymptom) :
                                n \in Objects(g, sym, MED_symptomName) } }
\* the solutions of the SELECT DISTINCT of query_diseases_by_symptoms
QueryRows(g, symptom_names) ==
    UNION { [ disease : {d},
              diseaseName : Objects(g, d, MED_diseaseName),
              description : Optional(Objects(g, d, MED_description)),
              urgency : Optional(Objects(g, d, MED_urgencyLevel)) ]
            : d \in { x \in Subjects(g, RDF_type, MED_Disease) :
                        \E sym \in Objects(g, x, MED_hasSymptom) :
                            Objects(g, sym, MED_symptomName)
                                \cap symptom_filter(symptom_names) # {} } }

\* match_percentage of a result
match_percentage(match_score) == FloatTimes(match_score, 10)

\* the matched_symptoms of a result
matched_symptoms(symptom_names, disease_symptoms) ==
    Filter(symptom_names, SeqRange(disease_symptoms))

\* the dict appended to results for one row
DiseaseDict(g, row, symptom_names, order) ==
    LET disease_symptoms == get_disease_symptoms(g, row.disease, order)
        match_score == calculate_match_score(symptom_names, disease_symptoms)
    IN [ uri |-> row.disease,
         name |-> IF Truthy(row.diseaseName) THEN LitStr(row.diseaseName)
                  ELSE <<"U", "n", "k", "n", "o", "w", "n">>,
         description |-> IF Truthy(row.description) THEN LitStr(row.description) ELSE <<>>,
         urgency |-> IF Truthy(row.urgency) THEN LitStr(row.urgency) ELSE medium,
         symptoms |-> disease_symptoms,
         matched_symptoms |-> matched_symptoms(symptom_names, disease_symptoms),
         match_score |-> match_score,
         match_percentage |-> match_percentage(match_score) ]

\* query_diseases_by_symptoms, the rows taken in the order `rows`
QueryResults(g, symptom_names, rows, order) ==
    [i \in 1..Len(rows) |-> DiseaseDict(g, rows[i], symptom_names, order)]

\* a variant that rejects an empty symptom_names
EmptyInputRaises == Raised
\* the return on an empty symptom_names
EmptyInputResult == Returned(<<>>)

\* query_diseases_by_symptoms: the outcomes possible, `results` being the list
\* handed to rank_diseases
QueryOutcomes(g, symptom_names) ==
    IF symptom_names = <<>> THEN { [results |-> <<>>, ret |-> EmptyInputResult] }
    ELSE { [ results |-> QueryResults(g, symptom_names, rows, order),
             ret |-> Returned(rank_diseases(QueryResults(g, symptom_names, rows, order),
                                            symptom_names)) ]
           : rows \in Perms(QueryRows(g, symptom_names)),
             order \in Perms(SymptomSolutions(g)) }

NoCall == <<"none", <<>>>>

query_diseases_by_symptoms ==
    \E symptom_names \in SeqsUpTo(Tokens, MaxInput) :
        /\ call = NoCall
        /\ call' = <<"query_diseases_by_symptoms", symptom_names>>
        /\ graph' = graph
        /\ UNCHANGED <<ragVars, appVars>>
        /\ \E outcome \in QueryOutcomes(graph, symptom_names) :
               /\ unranked' = outcome.results
               /\ ret' = outcome.ret

-----------------------------------------------------------------------------
(* The store as loaded from the snapshot that ingestion wrote *)

\* whether <id> is an IRI reference of SPARQL; if not, graph.query raises on the
\* query text built from it
ValidIri(id) == SeqRange(id) \cap {"<", ">", " ", "{", "}", "|", "^"} = {}

\* the solutions of the SELECT of get_specialty_for_disease
SpecialtyRows(g, disease_uri) ==
    UNION { LET departments ==
                  UNION { [ department : Objects(g, dept, MED_departmentName),
                            location : Optional(Objects(g, dept, MED_location)) ]
                          : dept \in Objects(g, specialty, MED_belongsToDepartment) }
            IN [ specialtyName : Objects(g, specialty, MED_specialtyName),
                 dept : IF departments = {}
                        THEN {[department |-> Unbound, location |-> Unbound]}
                        ELSE departments ]
            : specialty \in Objects(g, disease_uri, MED_treatedBy) }

SpecialtyDict(row) ==
    [ specialty |-> LitStr(row.specialtyName),
      department |-> IF Truthy(row.dept.department) THEN LitStr(row.dept.department)
                     ELSE <<"G", "e", "n", "e", "r", "a", "l">>,
      location |-> IF Truthy(row.dept.location) THEN LitStr(row.dept.location)
                   ELSE <<"M", "a", "i", "n", " ", "B", "u", "i", "l", "d", "i", "n", "g">> ]

\* get_specialty_for_disease: the outcomes possible, qres[0] being any solution
get_specialty_for_disease(g, disease_uri) ==
    IF ~ValidIri(disease_uri) THEN {Returned(None)}
    ELSE IF SpecialtyRows(g, disease_uri) = {} THEN {Returned(None)}
    ELSE {Returned(Some(SpecialtyDict(row))) : row \in SpecialtyRows(g, disease_uri)}

\* get_precautions_for_disease: the outcomes possible, in any order of the solutions
get_precautions_for_disease(g, disease_uri) ==
    IF ~ValidIri(disease_uri) THEN {Returned(<<>>)}
    ELSE { Returned([i \in 1..Len(p) |-> LitStr(p[i])])
           : p \in Perms(Objects(g, disease_uri, MED_hasPrecaution)) }

\* the solutions of the SELECT of get_disease_details
DetailsRows(g, disease_uri) ==
    IF <<disease_uri, RDF_type, MED_Disease>> \notin g THEN {}
    ELSE [ diseaseName : Objects(g, disease_uri, MED_diseaseName),
           description : Optional(Objects(g, disease_uri, MED_description)),
           urgency : Optional(Objects(g, disease_uri, MED_urgencyLevel)) ]

DetailsDict(g, disease_uri, row, order, specialty, precautions) ==
    [ uri |-> disease_uri,
      name |-> LitStr(row.diseaseName),
      description |-> IF Truthy(row.description) THEN LitStr(row.description) ELSE <<>>,
      urgency |-> IF Truthy(row.urgency) THEN LitStr(row.urgency) ELSE medium,
      symptoms |-> get_disease_symptoms(g, disease_uri, order),
      specialty |-> specialty,
      precautions |-> precautions ]

\* a variant of get_disease_details without the try and the `if qres`
GetDiseaseDetailsUnguarded(g, disease_uri) ==
    IF ~ValidIri(disease_uri) \/ DetailsRows(g, disease_uri) = {} THEN {Raised}
    ELSE { Returned(Some(DetailsDict(g, disease_uri, row, order, s.value, p.value)))
           : row \in DetailsRows(g, disease_uri),
             order \in Perms(SymptomSolutions(g)),
             s \in get_specialty_for_disease(g, disease_uri),
             p \in get_precautions_for_disease(g, disease_uri) }
\* get_disease_details: the outcomes possible
get_disease_details(g, disease_uri) ==
    IF ~ValidIri(disease_uri) THEN {Returned(None)}
    ELSE IF DetailsRows(g, disease_uri) = {} THEN {Returned(None)}
    ELSE { Returned(Some(DetailsDict(g, disease_uri, row, order, s.value, p.value)))
           : row \in DetailsRows(g, disease_uri),
             order \in Perms(SymptomSolutions(g)),
             s \in get_specialty_for_disease(g, disease_uri),
             p \in get_precautions_for_disease(g, disease_uri) }

\* the ids a caller may ask about: diseases of the data, a disease unknown to it,
\* an entity that is no disease, and a string that is no IRI
Ids == { DiseaseUri(flu), DiseaseUri(hep_b), DiseaseUri(cough), SymUri(rash),
         <<"f", "l", "u", ">">> }

\* the enrichment lookups
get_disease_details_call ==
    \E id \in Ids :
        /\ call = NoCall
        /\ call' = <<"get_disease_details", id>>
        /\ ret' \in get_disease_details(graph, id)
        /\ UNCHANGED <<storeVars, ragVars, appVars>>

get_specialty_for_disease_call ==
    \E id \in Ids :
        /\ call = NoCall
        /\ call' = <<"get_specialty_for_disease", id>>
        /\ ret' \in get_specialty_for_disease(graph, id)
        /\ UNCHANGED <<storeVars, ragVars, appVars>>

get_precautions_for_disease_call ==
    \E id \in Ids :
        /\ call = NoCall
        /\ call' = <<"get_precautions_for_disease", id>>
        /\ ret' \in get_precautions_for_disease(graph, id)
        /\ UNCHANGED <<storeVars, ragVars, appVars>>

\* a variant of get_graph_statistics that counts the symptom links of the diseases
GetGraphStatisticsCountsLinks(g) ==
    [ total_triples |-> Cardinality(g),
      diseases |-> Cardinality(Subjects(g, RDF_type, MED_Disease)),
      symptoms |-> Cardinality({t \in g : t[2] = MED_hasSymptom}),
      specialties |-> Cardinality(Subjects(g, RDF_type, MED_MedicalSpecialty)),
      departments |-> Cardinality(Subjects(g, RDF_type, MED_Department)) ]
\* get_graph_statistics: len(graph) and one COUNT(DISTINCT ?x) per type
get_graph_statistics(g) ==
    [ total_triples |-> Cardinality(g),
      diseases |-> Cardinality(Subjects(g, RDF_type, MED_Disease)),
      symptoms |-> Cardinality(Subjects(g, RDF_type, MED_Symptom)),
      specialties |-> Cardinality(Subjects(g, RDF_type, MED_MedicalSpecialty)),
      departments |-> Cardinality(Subjects(g, RDF_type, MED_Department)) ]

\* the f-string of search_by_disease_name puts the name between double quotes:
\* a name with a double quote of its own leaves a query that does not parse
QuotesClosed(disease_name) == "\"" \notin SeqRange(disease_name)

\* the solutions of the SELECT of search_by_disease_name
SearchRows(g, disease_name) ==
    UNION { [ disease : {d},
              diseaseName : { n \in Objects(g, d, MED_diseaseName) :
                                Contains(Lower(disease_name), Lower(LitStr(n))) },
              description : Optional(Objects(g, d, MED_description)) ]
            : d \in Subjects(g, RDF_type, MED_Disease) }

SearchLimit == 10

\* search_by_disease_name: the lists possible, one for each order of the rows
search_by_disease_name(g, disease_name) ==
    IF ~QuotesClosed(disease_name) THEN {Returned(<<>>)}
    ELSE { Returned([ i \in 1..(IF Len(rows) < SearchLimit THEN Len(rows) ELSE SearchLimit) |->
                        [ uri |-> rows[i].disease,
                          name |-> LitStr(rows[i].diseaseName),
                          description |-> IF Truthy(rows[i].description)
                                          THEN LitStr(rows[i].description) ELSE <<>> ] ])
           : rows \in Perms(SearchRows(g, disease_name)) }

\* the names a caller may search for: the empty name, part of a name in another
\* case, a whole name, a name of no disease, and a double quote
SearchNames == { <<>>, <<"F", "L">>, hep_b, <<"x">>, <<"\"">> }

get_graph_statistics_call ==
    /\ call = NoCall
    /\ call' = <<"get_graph_statistics", <<>>>>
    /\ ret' = Returned(get_graph_statistics(graph))
    /\ UNCHANGED <<storeVars, ragVars, appVars>>

search_by_disease_name_call ==
    \E disease_name \in SearchNames :
        /\ call = NoCall
        /\ call' = <<"search_by_disease_name", disease_name>>
        /\ ret' \in search_by_disease_name(graph, disease_name)
        /\ UNCHANGED <<storeVars, ragVars, appVars>>

\* the characters of names, in code point order
CodePoints ==
    << " ", "&", "(", ")", "-", "A", "B", "C", "D", "E", "F", "G", "H", "I", "J", "K",
       "L", "M", "N", "O", "P", "Q", "R", "S", "T", "U", "V", "W", "X", "Y", "Z", "_",
       "a", "b", "c", "d", "e", "f", "g", "h", "i", "j", "k", "l", "m", "n", "o", "p",
       "q", "r", "s", "t", "u", "v", "w", "x", "y", "z" >>
CodePoint(c) == CHOOSE i \in 1..Len(CodePoints) : CodePoints[i] = c

\* a < b for two strings
RECURSIVE StrLess(_, _)
StrLess(a, b) ==
    IF b = <<>> THEN FALSE
    ELSE IF a = <<>> THEN TRUE
    ELSE IF Head(a) = Head(b) THEN StrLess(Tail(a), Tail(b))
    ELSE CodePoint(Head(a)) < CodePoint(Head(b))

\* get_all_specialties: the distinct names of the entities of type
\* med:Specialty, ORDER BY ?specialtyName
get_all_specialties(g) ==
    LET names == { LitStr(n) : n \in UNION { Objects(g, specialty, MED_specialtyName)
                                             : specialty \in Subjects(g, RDF_type, MED_Specialty) } }
    IN Returned(CHOOSE p \in Perms(names) :
                    \A i \in 1..(Len(p) - 1) : StrLess(p[i], p[i + 1]))

get_all_specialties_call ==
    /\ call = NoCall
    /\ call' = <<"get_all_specialties", <<>>>>
    /\ ret' = get_all_specialties(graph)
    /\ UNCHANGED <<storeVars, ragVars, appVars>>

\* rank_diseases called on the list `unranked` that a caller built itself
rank_diseases_call ==
    /\ call = NoCall
    /\ unranked # <<>>
    /\ call' = <<"rank_diseases", <<>>>>
    /\ ret' = Returned(rank_diseases(unranked, <<>>))
    /\ UNCHANGED <<storeVars, ragVars, appVars>>

\* the caller is done with the value returned; the store stays as it is
request_done ==
    /\ call # NoCall
    /\ call' = NoCall
    /\ ret' = Returned(<<>>)
    /\ unranked' = <<>>
    /\ invoked' = "not_called"
    /\ UNCHANGED <<graph, llm, conversation_history, appVars>>

\* no page is open: the components were built by a caller of their own
NoSession == [ components_loaded |-> FALSE, messages |-> <<>>, language |-> fr,
               conversation_count |-> 0 ]
NoPage == [ served |-> <<>>, stats |-> None ]
NoApp ==
    /\ files = [ data |-> "ok", ontology |-> "ok", content |-> None ]
    /\ medical_data = None
    /\ symptoms_dict = <<>>
    /\ nlp = [fr |-> FALSE, en |-> FALSE]
    /\ session = NoSession
    /\ page = NoPage

\* the dicts a caller may hand to rank_diseases: any keys may be missing
RankInputs ==
    [ uri : {DiseaseUri(flu), DiseaseUri(hep_b)},
      match_score : {Float(5, 1), Float(10, 1)},
      urgency : {low, High} ]
    \cup [ uri : {DiseaseUri(flu)}, match_score : {Float(5, 1)} ]
    \cup [ uri : {DiseaseUri(flu)}, urgency : {High} ]

\* a store loaded from the snapshot of some source data
InitStore ==
    /\ \E data \in SourceData(RankingRecords) \cup SourceData(EnrichmentRecords) :
           graph = populate_knowledge_graph(data)
    /\ unranked = <<>>

\* an empty store, and a list a caller is about to rank
InitRankInput ==
    /\ graph = {}
    /\ unranked \in SeqsUpTo(RankInputs, MaxList)

Init ==
    /\ InitStore \/ InitRankInput
    /\ call = NoCall
    /\ ret = Returned(<<>>)
    /\ llm = None
    /\ conversation_history = <<>>
    /\ invoked = "not_called"
    /\ NoApp

Next ==
    \/ query_diseases_by_symptoms
    \/ rank_diseases_call
    \/ get_disease_details_call
    \/ get_specialty_for_disease_call
    \/ get_precautions_for_disease_call
    \/ get_graph_statistics_call
    \/ search_by_disease_name_call
    \/ get_all_specialties_call
    \/ request_done

Spec == Init /\ [][Next]_vars

-----------------------------------------------------------------------------
(* The response generator of src/llm_engine.py.  A text is a sequence of    *)
(* strings: the fixed parts of a template are one string each, named after  *)
(* the words they stand for, and the values formatted into the template are *)
(* their characters.                                                        *)

\* the '{:.0f}' of a float that is not negative: the nearest integer, a tie
\* going to the even one
Format0f(x) ==
    LET q == x.num \div x.den
        r == x.num % x.den
        n == IF 2 * r > x.den THEN q + 1
             ELSE IF 2 * r < x.den THEN q
             ELSE IF q % 2 = 0 THEN q ELSE q + 1
    IN Digits(n)

\* dict.get(key, default)
Get(dict, key, default) == IF key \in DOMAIN dict THEN dict[key] ELSE default

\* the lines "   - <precaution>\n" of precautions[:3]
RECURSIVE PrecautionLines(_)
PrecautionLines(precautions) ==
    IF precautions = <<>> THEN <<>>
    ELSE <<"   - ">> \o Head(precautions) \o <<"\n">> \o PrecautionLines(Tail(precautions))

\* the part of the template after the heading, in the words of one language
FallbackAnalysis(top_disease, words) ==
    LET has_specialty == "specialty" \in DOMAIN top_disease /\ top_disease.specialty # None
        spec == top_disease.specialty[1]
        has_precautions == "precautions" \in DOMAIN top_disease /\ top_disease.precautions # <<>>
    IN <<words.heading, words.condition>> \o top_disease.name
       \o <<words.match>> \o Format0f(Get(top_disease, "match_percentage", Float(0, 1)))
       \o <<"%", words.urgency>> \o Upper(Get(top_disease, "urgency", words.default_urgency))
       \o <<words.recommendation>>
       \o (IF has_specialty
           THEN <<words.specialty>> \o Get(spec, "specialty", words.default_specialty) \o <<"\n">>
                \o <<words.department>> \o Get(spec, "department", words.default_department)
                \o <<"\n">>
           ELSE <<>>)
       \o (IF has_precautions
           THEN <<words.precautions>> \o PrecautionLines(SubSeq(top_disease.precautions, 1, 3))
           ELSE <<>>)
       \o <<words.important>>

FrenchWords ==
    [ heading |-> "Base sur vos symptomes, voici mon analyse :",
      condition |-> "**Condition possible**: ", match |-> "   - Correspondance: ",
      urgency |-> "   - Urgence: ", default_urgency |-> <<"m", "o", "y", "e", "n", "n", "e">>,
      recommendation |-> "**Recommandation**:\n",
      specialty |-> "   - Specialite: ", default_specialty |-> <<"Medecine Generale">>,
      department |-> "   - Departement: ", default_department |-> <<"Consultations Externes">>,
      precautions |-> "**Precautions**:\n",
      important |-> "**Important**: Cette analyse est indicative." ]

EnglishWords ==
    [ heading |-> "Based on your symptoms, here's my analysis:",
      condition |-> "**Possible Condition**: ", match |-> "   - Match: ",
      urgency |-> "   - Urgency: ", default_urgency |-> medium,
      recommendation |-> "**Recommendation**:\n",
      specialty |-> "   - Specialty: ", default_specialty |-> <<"General Medicine">>,
      department |-> "   - Department: ", default_department |-> <<"Outpatient Clinic">>,
      precautions |-> "**Precautions**:\n",
      important |-> "**Important**: This analysis is indicative." ]

\* _fallback_response
fallback_response(query_results, language) ==
    IF query_results = <<>>
    THEN IF language = fr THEN <<"Je n'ai pas trouve de correspondance exacte">>
         ELSE <<"I couldn't find an exact match">>
    ELSE IF language = fr THEN FallbackAnalysis(query_results[1], FrenchWords)
    ELSE FallbackAnalysis(query_results[1], EnglishWords)

\* `language or self.language`, self.language being the "fr" of the constructor
Lang(language) == IF language = None THEN fr ELSE language

\* generate_response when self.llm is None
NoLlmResult(query_results, language) ==
    Returned(fallback_response(query_results, Lang(language)))

\* a variant of generate_response without the try around llm.invoke
InvokeRaisedPropagates(query_results, lang) == Raised
\* generate_response when llm.invoke raised
InvokeRaisedResult(query_results, lang) == Returned(fallback_response(query_results, lang))

\* the texts a patient may type and the text generator may answer
UserInputs == { <<"j'ai de la fievre">>, <<"I have a rash">> }
Responses == { <<"Consultez un dermatologue.">> }

\* how a call of llm.invoke may end
InvokeOutcomes == { Raised } \cup { Returned(r) : r \in Responses }

Precautions4 == << <<"r", "e", "s", "t">>, <<"d", "r", "i", "n", "k">>,
                   <<"w", "a", "s", "h">>, <<"m", "a", "s", "k">> >>

\* the dicts of a query_results: a dict of query_diseases_by_symptoms, with the
\* specialty and precautions keys once the caller has enriched it
ResultDicts ==
    [ name : {flu}, match_percentage : {Float(100, 1)}, urgency : {low},
      specialty : { None, Some([ specialty |-> Dermatology, department |-> SkinDept,
                                 location |-> BuildingA ]) },
      precautions : { <<>>, Precautions4 } ]
    \cup [ name : {hep_b}, match_percentage : {Float(50, 3)}, urgency : {High} ]
    \cup [ name : {hep_b} ]

Languages == { None, fr, en }

\* a variant of generate_response that records the exchange before llm.invoke,
\* so that a fallback after a raise leaves it in the history
GenerateOutcomesRecordsFirst(client, history, user_input, query_results, language) ==
    IF client = None
    THEN { [ ret |-> NoLlmResult(query_results, language), invoked |-> "not_called",
             history |-> history ] }
    ELSE { IF outcome.raised
           THEN [ ret |-> InvokeRaisedResult(query_results, Lang(language)),
                  invoked |-> "raised",
                  history |-> history \o <<user_input,
                                           InvokeRaisedResult(query_results,
                                                              Lang(language)).value>> ]
           ELSE [ ret |-> Returned(outcome.value), invoked |-> "returned",
                  history |-> history \o <<user_input, outcome.value>> ]
           : outcome \in InvokeOutcomes }
\* generate_response: the outcomes possible, with the history it leaves
GenerateOutcomes(client, history, user_input, query_results, language) ==
    IF client = None
    THEN { [ ret |-> NoLlmResult(query_results, language), invoked |-> "not_called",
             history |-> history ] }
    ELSE { IF outcome.raised
           THEN [ ret |-> InvokeRaisedResult(query_results, Lang(language)),
                  invoked |-> "raised", history |-> history ]
           ELSE [ ret |-> Returned(outcome.value), invoked |-> "returned",
                  history |-> history \o <<user_input, outcome.value>> ]
           : outcome \in InvokeOutcomes }

generate_response ==
    \E user_input \in UserInputs, query_results \in SeqsUpTo(ResultDicts, MaxResults),
       language \in Languages :
        /\ call = NoCall
        /\ Len(conversation_history) + 2 <= MaxHistory
        /\ call' = <<"generate_response", <<user_input, query_results, language>>>>
        /\ \E outcome \in GenerateOutcomes(llm, conversation_history, user_input,
                                           query_results, language) :
               /\ ret' = outcome.ret
               /\ invoked' = outcome.invoked
               /\ conversation_history' = outcome.history
        /\ UNCHANGED <<storeVars, llm, appVars>>

reset_conversation ==
    /\ call = NoCall
    /\ conversation_history # <<>>
    /\ call' = <<"reset_conversation", <<>>>>
    /\ conversation_history' = <<>>
    /\ ret' = Returned(None)
    /\ UNCHANGED <<storeVars, llm, invoked, appVars>>

\* after _initialize_llm: the client, or None when it could not be built
InitRAG ==
    /\ llm \in { None, Some("OllamaLLM") }
    /\ conversation_history = <<>>
    /\ invoked = "not_called"
    /\ graph = {}
    /\ unranked = <<>>
    /\ call = NoCall
    /\ ret = Returned(<<>>)
    /\ NoApp

NextRAG ==
    \/ generate_response
    \/ reset_conversation
    \/ request_done

SpecRAG == InitRAG /\ [][NextRAG]_vars

-----------------------------------------------------------------------------
(* The page of src/app/main.py.  One rerun of main() is one step: the      *)
(* components are built if the session has none, the sidebar shows the     *)
(* statistics of the store, and the event that caused the rerun is handled. *)

\* str.strip()
Whitespace == {" ", "\t", "\n"}
RECURSIVE LStrip(_)
LStrip(s) == IF s # <<>> /\ Head(s) \in Whitespace THEN LStrip(Tail(s)) ELSE s
Strip(s) == Reverse(LStrip(Reverse(LStrip(s))))
\* re.sub(r'\s+', ' ', s): one space for each run of whitespace
RECURSIVE CollapseSpaces(_)
CollapseSpaces(s) ==
    IF s = <<>> THEN <<>>
    ELSE IF Head(s) \in Whitespace THEN <<" ">> \o CollapseSpaces(LStrip(Tail(s)))
    ELSE <<Head(s)>> \o CollapseSpaces(Tail(s))

\* a variant of _normalize_symptom_name that turns a hyphen into a space
NormalizeHyphenToSpace(symptom) ==
    Replace(Replace(Strip(Lower(symptom)), " ", <<"_">>), "-", <<" ">>)
\* _normalize_symptom_name
normalize_symptom_name(symptom) ==
    Replace(Replace(Strip(Lower(symptom)), " ", <<"_">>), "-", <<"_">>)

\* the keys of symptoms_dict
SymptomKeys(data) ==
    { normalize_symptom_name(symptom.name)
      : symptom \in { x \in UNION { data.diseases[i].symptoms : i \in 1..Len(data.diseases) }
                      : x.name # <<>> } }

\* the `normalized` of the dicts extract_symptoms returns on some text: keys of
\* symptoms_dict, each at most once
ExtractedNames(data) ==
    { names \in SeqsUpTo(SymptomKeys(data), MaxInput)
      : \A i, j \in 1..Len(names) : i # j => names[i] # names[j] }

\* _load_medical_data: a file that is missing leaves an empty vocabulary, one
\* that is no JSON raises
load_medical_data(f) ==
    IF f.data = "ok" THEN Returned(f.content)
    ELSE IF f.data = "missing" THEN Returned([diseases |-> <<>>, departments |-> {}])
    ELSE Raised

\* _load_graph: the triples of the snapshot, or none when parsing it raised
load_graph(f) == IF f.ontology = "ok" THEN populate_knowledge_graph(f.content) ELSE {}

\* disease['specialty'], disease['precautions'] set from the details, if any
EnrichOne(disease, details) ==
    IF details.value = None THEN disease
    ELSE [ specialty |-> details.value[1].specialty,
           precautions |-> details.value[1].precautions ] @@ disease

\* the loop over diseases[:3], from the i-th on: the lists it may leave
RECURSIVE Enrich(_, _, _)
Enrich(g, diseases, i) ==
    IF i > Len(diseases) \/ i > 3 THEN {diseases}
    ELSE UNION { Enrich(g, [diseases EXCEPT ![i] = EnrichOne(@, details)], i + 1)
                 : details \in get_disease_details(g, diseases[i].uri) }

NoSymptomsText(language) ==
    IF language = fr THEN <<"Je n'ai pas pu identifier de symptomes specifiques.">>
    ELSE <<"I couldn't identify specific symptoms.">>

\* the rerun stops at st.stop(): nothing is served
Stopped ==
    /\ page' = [served |-> <<>>, stats |-> None]
    /\ UNCHANGED <<graph, medical_data, llm, conversation_history, session>>

\* main() from the sidebar on, with the components of the session
Rerun(g, data, client, history, language, event) ==
    LET stats == get_graph_statistics(g)
        state == [session EXCEPT !.components_loaded = TRUE, !.language = language]
    IN /\ graph' = g
       /\ medical_data' = data
       /\ llm' = client
       /\ IF event[1] = "open"
          THEN /\ session' = state
               /\ conversation_history' = history
               /\ page' = [served |-> <<"get_graph_statistics">>, stats |-> Some(stats)]
          ELSE IF event[1] = "reset"
          THEN /\ session' = [state EXCEPT !.messages = <<>>,
                                           !.conversation_count = @ + 1]
               /\ conversation_history' = <<>>
               /\ page' = [ served |-> <<"get_graph_statistics", "reset_conversation",
                                         "get_graph_statistics">>,
                            stats |-> Some(stats) ]
          ELSE \E names \in ExtractedNames(data) :
                   IF names = <<>>
                   THEN /\ session' = [state EXCEPT !.messages = @ \o
                               << [role |-> "user", content |-> event[2]],
                                  [role |-> "assistant",
                                   content |-> NoSymptomsText(language)] >>]
                        /\ conversation_history' = history
                        /\ page' = [ served |-> <<"get_graph_statistics",
                                                  "extract_symptoms">>,
                                     stats |-> Some(stats) ]
                   ELSE \E found \in QueryOutcomes(g, names) :
                        \E diseases \in Enrich(g, found.ret.value, 1) :
                        \E response \in GenerateOutcomes(client, history, event[2],
                                                         diseases, language) :
                            /\ session' = [state EXCEPT !.messages = @ \o
                                   << [role |-> "user", content |-> event[2]],
                                      [role |-> "assistant",
                                       content |-> response.ret.value,
                                       diseases |-> SubSeq(diseases, 1,
                                           IF Len(diseases) < 3 THEN Len(diseases)
                                           ELSE 3)] >>]
                            /\ conversation_history' = response.history
                            /\ page' = [ served |-> <<"get_graph_statistics",
                                                      "extract_symptoms",
                                                      "query_diseases_by_symptoms",
                                                      "get_disease_details",
                                                      "generate_response">>,
                                         stats |-> Some(stats) ]

\* a variant of main() that calls load_components in every rerun
MainLoadsEveryRerun(language, event) ==
    /\ call = NoCall
    /\ UNCHANGED <<call, ret, unranked, invoked, files, symptoms_dict, nlp>>
    /\ IF load_medical_data(files).raised THEN Stopped
       ELSE \E client \in { None, Some("OllamaLLM") } :
                Rerun(load_graph(files), load_medical_data(files).value, client, <<>>,
                      language, event)
\* main(): load_components when the session has no components, then the rest
Main(language, event) ==
    /\ call = NoCall
    /\ UNCHANGED <<call, ret, unranked, invoked, files, symptoms_dict, nlp>>
    /\ IF session.components_loaded
       THEN Rerun(graph, medical_data, llm, conversation_history, language, event)
       ELSE IF load_medical_data(files).raised THEN Stopped
       ELSE \E client \in { None, Some("OllamaLLM") } :
                Rerun(load_graph(files), load_medical_data(files).value, client, <<>>,
                      language, event)

\* a rerun that no widget caused: the page is opened or reloaded
main_open ==
    \E language \in {fr, en} :
        /\ session.conversation_count <= MaxConversations
        /\ Main(language, <<"open">>)

\* the rerun caused by the button of a new conversation
main_reset ==
    \E language \in {fr, en} :
        /\ session.conversation_count < MaxConversations
        /\ Main(language, <<"reset">>)

\* the rerun caused by a text sent in the chat input
main_prompt ==
    \E language \in {fr, en}, prompt \in UserInputs :
        /\ Len(session.messages) + 2 <= MaxMessages
        /\ Main(language, <<"prompt", prompt>>)

\* the disease records of the file at DATA_PATH
SessionRecords ==
    [ disease : {flu, hep_b},
      symptoms : { {SymptomRecord(rash)}, {SymptomRecord(rash), SymptomRecord(itch)} },
      urgency : {low},
      specialty : {Dermatology},
      department : {SkinDept},
      available_slots : {<<"5">>} ]

FileStates == {"ok", "missing", "malformed"}

\* a session that opens: the snapshot at ONTOLOGY_PATH, when there, is the one
\* ingestion wrote from the data at DATA_PATH
InitSession ==
    /\ files \in [ data : FileStates, ontology : FileStates,
                   content : SourceData(SessionRecords) ]
    /\ medical_data = None
    /\ symptoms_dict = <<>>
    /\ nlp = [fr |-> FALSE, en |-> FALSE]
    /\ graph = {}
    /\ unranked = <<>>
    /\ llm = None
    /\ conversation_history = <<>>
    /\ invoked = "not_called"
    /\ session = NoSession
    /\ page = NoPage
    /\ call = NoCall
    /\ ret = Returned(<<>>)

NextSession ==
    \/ main_open
    \/ main_reset
    \/ main_prompt

SpecSession == InitSession /\ [][NextSession]_vars

-----------------------------------------------------------------------------
(* The text functions of src/nlp_processor.py: _normalize_symptom_name and *)
(* detect_language, applied to bounded strings.                            *)

\* the strings handed to _normalize_symptom_name
SurfaceForms == SeqsUpTo({"a", "B", " ", "-"}, MaxStr)

normalize_symptom_name_call ==
    \E symptom \in SurfaceForms :
        /\ call = NoCall
        /\ call' = <<"normalize_symptom_name", symptom>>
        /\ ret' = Returned(normalize_symptom_name(symptom))
        /\ UNCHANGED <<storeVars, ragVars, appVars>>

\* str.split(): the maximal runs of characters that are not whitespace
RECURSIVE SplitFrom(_, _)
SplitFrom(s, word) ==
    IF s = <<>> THEN (IF word = <<>> THEN <<>> ELSE <<word>>)
    ELSE IF Head(s) \in Whitespace
         THEN (IF word = <<>> THEN <<>> ELSE <<word>>) \o SplitFrom(Tail(s), <<>>)
         ELSE SplitFrom(Tail(s), Append(word, Head(s)))
Split(s) == SplitFrom(s, <<>>)

french_words ==
    { <<"j", "e">>,
      <<"t", "u">>,
      <<"i", "l">>,
      <<"e", "l", "l", "e">>,
      <<"n", "o", "u", "s">>,
      <<"v", "o", "u", "s">>,
      <<"i", "l", "s">>,
      <<"e", "l", "l", "e", "s">>,
      <<"l", "e">>,
      <<"l", "a">>,
      <<"l", "e", "s">>,
      <<"d", "e">>,
      <<"d", "u">>,
      <<"d", "e", "s">>,
      <<"u", "n">>,
      <<"u", "n", "e">>,
      <<"a", "i">>,
      <<"a", "s">>,
      <<"a", "v", "o", "n", "s">>,
      <<"s", "u", "i", "s">>,
      <<"e", "s", "t">>,
      <<"s", "o", "n", "t">> }

\* a variant of detect_language that counts the words of the list, repeats too
DetectLanguageCountsRepeats(text) ==
    LET words == Split(Lower(text))
        french_count == Cardinality({i \in 1..Len(words) : words[i] \in french_words})
    IN IF french_count >= 2 THEN fr ELSE en
detect_language(text) ==
    LET words == SeqRange(Split(Lower(text)))
        french_count == Cardinality(words \cap french_words)
    IN IF french_count >= 2 THEN fr ELSE en

\* " ".join(words)
RECURSIVE Join(_)
Join(words) ==
    IF words = <<>> THEN <<>>
    ELSE IF Len(words) = 1 THEN words[1]
    ELSE words[1] \o <<" ">> \o Join(Tail(words))

\* the words of the texts handed to detect_language; the empty one makes runs
\* of spaces
DetectWords == { <<>>, <<"J", "e">>, <<"j", "e">>, <<"a", "i">>, <<"j", "'", "a", "i">>,
                 <<"f", "e", "v", "e", "r">> }
DetectTexts == { Join(words) : words \in SeqsUpTo(DetectWords, MaxTokens) }

detect_language_call ==
    \E text \in DetectTexts :
        /\ call = NoCall
        /\ call' = <<"detect_language", text>>
        /\ ret' = Returned(detect_language(text))
        /\ UNCHANGED <<storeVars, ragVars, appVars>>

\* an extractor whose text functions are called; they read no state of it
InitText ==
    /\ graph = {}
    /\ unranked = <<>>
    /\ llm = None
    /\ conversation_history = <<>>
    /\ invoked = "not_called"
    /\ call = NoCall
    /\ ret = Returned(<<>>)
    /\ NoApp

NextText ==
    \/ normalize_symptom_name_call
    \/ detect_language_call
    \/ request_done

SpecText == InitText /\ [][NextText]_vars

-----------------------------------------------------------------------------
(* nlp_processor.SymptomExtractor.extract_symptoms.  The vocabulary is built  *)
(* from the symptom names of the source data, which data_processing writes   *)
(* with clean_text; the store is the one ingestion builds from the same data. *)
(* What spaCy makes of a text is not fixed by the code: the noun chunks of a  *)
(* text are any of its phrases, in the order of the text.                     *)

\* data_processing.clean_text; no name of the bounded data is a key of the
\* corrections table
clean_text(text) == Strip(CollapseSpaces(Replace(Lower(text), "_", <<" ">>)))

\* symptom names as the raw dataset writes them
RawSymptoms == { <<"s", "k", "i", "n", "_", "r", "a", "s", "h">>,
                 <<" ", "h", "e", "a", "d", "a", "c", "h", "e">> }

\* one disease record that lists some of the symptoms, or no record
NlpData ==
    { [ diseases |-> diseases, departments |-> Departments ]
      : diseases \in {<<>>} \cup
          { <<[ disease |-> flu, symptoms |-> symptoms, urgency |-> low,
                specialty |-> Dermatology, department |-> SkinDept,
                available_slots |-> <<"5">> ]>>
            : symptoms \in (SUBSET { SymptomRecord(clean_text(raw)) : raw \in RawSymptoms })
                           \ {{}} } }

\* a dict is the sequence of its items <<key, value>> in insertion order
HasKey(dict, key) == \E i \in 1..Len(dict) : dict[i][1] = key
DictGet(dict, key) == dict[CHOOSE i \in 1..Len(dict) : dict[i][1] = key][2]
DictSet(dict, key, value) ==
    IF HasKey(dict, key)
    THEN <<>> \o [i \in 1..Len(dict) |-> IF dict[i][1] = key THEN <<key, value>> ELSE dict[i]]
    ELSE Append(dict, <<key, value>>)

\* _build_symptom_dictionaries: the loop over the set all_symptoms, iterated
\* in the order `all_symptoms`
RECURSIVE build_symptom_dictionaries(_, _)
build_symptom_dictionaries(all_symptoms, dict) ==
    IF all_symptoms = <<>> THEN dict
    ELSE build_symptom_dictionaries(Tail(all_symptoms),
             DictSet(dict, normalize_symptom_name(Head(all_symptoms)), Head(all_symptoms)))

\* the symptoms_dict an extractor may build from the data
SymptomsDicts(data) ==
    { build_symptom_dictionaries(order, <<>>)
      : order \in Perms({ symptom.name
                          : symptom \in { x \in UNION { data.diseases[i].symptoms
                                                        : i \in 1..Len(data.diseases) }
                                          : x.name # <<>> } }) }

\* a variant of the table without the entries whose target is headache
SynonymsWithoutHeadache ==
    << <<<<"s", "k", "i", "n", " ", "r", "a", "s", "h">>,
         <<"s", "k", "i", "n", "_", "r", "a", "s", "h">>>> >>

\* _build_symptom_synonyms: the entries whose target normalizes to a name of
\* the bounded data, in the order of the table; the target of every other
\* entry is no key of symptoms_dict, so that entry adds nothing
symptom_synonyms ==
    << <<<<"m", "a", "l", " ", "d", "e", " ", "t", "ê", "t", "e">>,
         <<"h", "e", "a", "d", "a", "c", "h", "e">>>>,
       <<<<"m", "a", "u", "x", " ", "d", "e", " ", "t", "ê", "t", "e">>,
         <<"h", "e", "a", "d", "a", "c", "h", "e">>>>,
       <<<<"c", "é", "p", "h", "a", "l", "é", "e">>,
         <<"h", "e", "a", "d", "a", "c", "h", "e">>>>,
       <<<<"é", "r", "u", "p", "t", "i", "o", "n", " ", "c", "u", "t", "a", "n", "é", "e">>,
         <<"s", "k", "i", "n", "_", "r", "a", "s", "h">>>>,
       <<<<"e", "r", "u", "p", "t", "i", "o", "n", " ", "c", "u", "t", "a", "n", "e", "e">>,
         <<"s", "k", "i", "n", "_", "r", "a", "s", "h">>>>,
       <<<<"h", "e", "a", "d", "a", "c", "h", "e", "s">>,
         <<"h", "e", "a", "d", "a", "c", "h", "e">>>>,
       <<<<"s", "k", "i", "n", " ", "r", "a", "s", "h">>,
         <<"s", "k", "i", "n", "_", "r", "a", "s", "h">>>> >>

\* a variant of Method 1 that takes every known symptom as found
Method1EveryKey(dict, text_lower, confidence, method) ==
    <<>> \o [ i \in 1..Len(dict) |->
               [ symptom |-> dict[i][2], normalized |-> dict[i][1],
                 confidence |-> confidence, method |-> method ] ]

\* Method 1 of extract_symptoms and the first loop of _fallback_extraction
Method1(dict, text_lower, confidence, method) ==
    LET Hit(item) == \/ Contains(item[1], text_lower)
                     \/ Contains(Lower(item[2]), text_lower)
        hits == SelectSeq(dict, Hit)
    IN <<>> \o [ i \in 1..Len(hits) |->
           [ symptom |-> hits[i][2], normalized |-> hits[i][1],
             confidence |-> confidence, method |-> method ] ]

\* Method 2 of extract_symptoms and the second loop of _fallback_extraction
Method2(dict, text_lower, confidence, method) ==
    LET Hit(item) == /\ Contains(item[1], text_lower)
                     /\ HasKey(dict, normalize_symptom_name(item[2]))
        hits == SelectSeq(symptom_synonyms, Hit)
    IN <<>> \o [ i \in 1..Len(hits) |->
           [ symptom |-> DictGet(dict, normalize_symptom_name(hits[i][2])),
             normalized |-> normalize_symptom_name(hits[i][2]),
             confidence |-> confidence, method |-> method ] ]

\* Method 3 of extract_symptoms
Method3(dict, noun_chunks) ==
    LET Hit(chunk) == HasKey(dict, normalize_symptom_name(Lower(chunk)))
        hits == SelectSeq(noun_chunks, Hit)
    IN <<>> \o [ i \in 1..Len(hits) |->
           [ symptom |-> DictGet(dict, normalize_symptom_name(Lower(hits[i]))),
             normalized |-> normalize_symptom_name(Lower(hits[i])),
             confidence |-> Float(7, 10), method |-> "noun_chunk" ] ]

\* a variant of the loops that fill unique_symptoms in which every entry
\* replaces the one of its token
RECURSIVE RemoveDuplicatesKeepLast(_, _, _)
RemoveDuplicatesKeepLast(extracted, unique_symptoms, keep_highest) ==
    IF extracted = <<>>
    THEN <<>> \o [ i \in 1..Len(unique_symptoms) |-> unique_symptoms[i][2] ]
    ELSE RemoveDuplicatesKeepLast(Tail(extracted),
             DictSet(unique_symptoms, Head(extracted).normalized, Head(extracted)),
             keep_highest)

\* the loops that fill unique_symptoms: an entry replaces the one of its token
\* when keep_highest and its confidence is greater
RECURSIVE RemoveDuplicates(_, _, _)
RemoveDuplicates(extracted, unique_symptoms, keep_highest) ==
    IF extracted = <<>>
    THEN <<>> \o [ i \in 1..Len(unique_symptoms) |-> unique_symptoms[i][2] ]
    ELSE LET symptom == Head(extracted)
             key == symptom.normalized
         IN RemoveDuplicates(Tail(extracted),
                IF \/ ~HasKey(unique_symptoms, key)
                   \/ /\ keep_highest
                      /\ FloatLess(DictGet(unique_symptoms, key).confidence,
                                   symptom.confidence)
                THEN DictSet(unique_symptoms, key, symptom)
                ELSE unique_symptoms,
                keep_highest)

\* a variant of the sort that puts x in front
InsertAtFront(sorted, x) == <<x>> \o sorted

\* result.sort(key=confidence, reverse=True): stable, x goes after the entries
\* whose confidence is not less
RECURSIVE InsertByConfidence(_, _)
InsertByConfidence(sorted, x) ==
    IF sorted = <<>> THEN <<x>>
    ELSE IF FloatLess(Head(sorted).confidence, x.confidence) THEN <<x>> \o sorted
    ELSE <<Head(sorted)>> \o InsertByConfidence(Tail(sorted), x)

RECURSIVE SortByConfidence(_)
SortByConfidence(result) ==
    IF result = <<>> THEN <<>>
    ELSE InsertByConfidence(SortByConfidence(SubSeq(result, 1, Len(result) - 1)),
                            result[Len(result)])

\* a variant of _fallback_extraction with the confidences of full mode
FallbackWithFullConfidence(dict, text) ==
    RemoveDuplicates(Method1(dict, Lower(text), Float(9, 10), "keyword_match")
                     \o Method2(dict, Lower(text), Float(17, 20), "synonym_keyword"),
                     <<>>, FALSE)
\* a variant of _fallback_extraction without the loop over the synonyms
FallbackWithoutSynonyms(dict, text) ==
    RemoveDuplicates(Method1(dict, Lower(text), Float(4, 5), "keyword_match"),
                     <<>>, FALSE)

fallback_extraction(dict, text) ==
    LET text_lower == Lower(text)
    IN RemoveDuplicates(Method1(dict, text_lower, Float(4, 5), "keyword_match")
                        \o Method2(dict, text_lower, Float(3, 4), "synonym_keyword"),
                        <<>>, FALSE)

\* extract_symptoms once the language is known: noun_chunks is None when the
\* spaCy model of the language is not there
extract_symptoms(dict, text, noun_chunks) ==
    IF noun_chunks = None THEN fallback_extraction(dict, text)
    ELSE LET text_lower == Lower(text)
         IN SortByConfidence(
                RemoveDuplicates(Method1(dict, text_lower, Float(9, 10), "exact_match")
                                 \o Method2(dict, text_lower, Float(17, 20), "synonym_match")
                                 \o Method3(dict, noun_chunks[1]),
                                 <<>>, TRUE))

\* the phrases of the texts handed to extract_symptoms
Phrases ==
    { <<"j", "e">>,
      <<"H", "e", "a", "d", "a", "c", "h", "e">>,
      <<"h", "e", "a", "d", "a", "c", "h", "e", "s">>,
      <<"m", "a", "l", " ", "d", "e", " ", "t", "ê", "t", "e">>,
      <<"m", "a", "u", "x", " ", "d", "e", " ", "t", "ê", "t", "e">>,
      <<"c", "é", "p", "h", "a", "l", "é", "e">>,
      <<"s", "k", "i", "n", " ", "r", "a", "s", "h">>,
      <<"s", "k", "i", "n", "-", "r", "a", "s", "h">> }

\* the phrases of `words` at the positions in `positions`, in lower case
RECURSIVE NounChunks(_, _, _)
NounChunks(words, positions, i) ==
    IF i > Len(words) THEN <<>>
    ELSE (IF i \in positions THEN <<Lower(words[i])>> ELSE <<>>)
         \o NounChunks(words, positions, i + 1)

extract_symptoms_call ==
    /\ call = NoCall
    /\ \E words \in SeqsUpTo(Phrases, MaxWords), language \in {None, Some(fr), Some(en)} :
        LET text == Join(words)
            lang == IF language = None THEN detect_language(text) ELSE language[1]
            model == IF lang = fr THEN nlp.fr ELSE nlp.en
        IN \E positions \in (IF model THEN SUBSET (1..Len(words)) ELSE {{}}) :
               LET noun_chunks == IF model THEN Some(NounChunks(words, positions, 1))
                                  ELSE None
               IN /\ call' = <<"extract_symptoms",
                               [ text |-> text, language |-> language,
                                 noun_chunks |-> noun_chunks ]>>
                  /\ ret' = Returned(extract_symptoms(symptoms_dict, text, noun_chunks))
                  /\ UNCHANGED <<storeVars, ragVars, appVars>>

\* an extractor built from the data, each spaCy model installed or not, and
\* the store ingestion built from the same data
InitNLP ==
    /\ medical_data \in NlpData
    /\ symptoms_dict \in SymptomsDicts(medical_data)
    /\ nlp \in [fr : BOOLEAN, en : BOOLEAN]
    /\ graph = populate_knowledge_graph(medical_data)
    /\ files = [ data |-> "ok", ontology |-> "ok", content |-> medical_data ]
    /\ unranked = <<>>
    /\ llm = None
    /\ conversation_history = <<>>
    /\ invoked = "not_called"
    /\ session = NoSession
    /\ page = NoPage
    /\ call = NoCall
    /\ ret = Returned(<<>>)

NextNLP ==
    \/ extract_symptoms_call
    \/ request_done

SpecNLP == InitNLP /\ [][NextNLP]_vars

-----------------------------------------------------------------------------
(* Properties of query_diseases_by_symptoms and rank_diseases *)

IsQuery == call[1] = "query_diseases_by_symptoms"
IsRanking == call[1] \in {"query_diseases_by_symptoms", "rank_diseases"}
Input == call[2]
Results == ret.value

\* symptoms(d): the symptom names the store links to the disease
StoreSymptomNames(g, uri) ==
    { LitStr(n) : n \in UNION { Objects(g, sym, MED_symptomName) :
                                  sym \in Objects(g, uri, MED_hasSymptom) } }

\* the Disease entities of the store with a symptom named by the input
Candidates(g, input) ==
    { d \in Subjects(g, RDF_type, MED_Disease) :
        StoreSymptomNames(g, d) \cap SeqRange(input) # {} }

\* the urgency rank of the ranking: high 3, medium 2, low 1 whatever the case of
\* the letters, any other or missing urgency 2
UrgencyRank(disease) ==
    IF "urgency" \notin DOMAIN disease THEN 2
    ELSE IF Lower(disease.urgency) = high THEN 3
    ELSE IF Lower(disease.urgency) = low THEN 1
    ELSE 2

ScoreOf(disease) ==
    IF "match_score" \in DOMAIN disease THEN disease.match_score ELSE Float(0, 1)

SameRank(a, b) == FloatEq(ScoreOf(a), ScoreOf(b)) /\ UrgencyRank(a) = UrgencyRank(b)

\* the entries of l that tie with x, in the order of l
RECURSIVE TiedWith(_, _)
TiedWith(l, x) ==
    IF l = <<>> THEN <<>>
    ELSE (IF SameRank(Head(l), x) THEN <<Head(l)>> ELSE <<>>) \o TiedWith(Tail(l), x)

C2_RankingOrder ==
    IsRanking =>
        \A i \in 1..(Len(Results) - 1) :
            /\ FloatLeq(ScoreOf(Results[i + 1]), ScoreOf(Results[i]))
            /\ FloatEq(ScoreOf(Results[i]), ScoreOf(Results[i + 1]))
                   => UrgencyRank(Results[i]) >= UrgencyRank(Results[i + 1])

\* a query whose rows came with the lower urgency first, at equal score
C2_Witness ==
    /\ IsQuery /\ Len(unranked) = 2
    /\ FloatEq(ScoreOf(unranked[1]), ScoreOf(unranked[2]))
    /\ UrgencyRank(unranked[1]) < UrgencyRank(unranked[2])
    /\ Results = <<unranked[2], unranked[1]>>

\* C3: rank_diseases is stable: the entries with equal score and equal urgency
\* rank come out in the order they had in the list passed in
C3_StableRanking ==
    IsRanking =>
        /\ Len(Results) = Len(unranked)
        /\ \A i \in DOMAIN unranked :
               TiedWith(Results, unranked[i]) = TiedWith(unranked, unranked[i])

\* two different rows tie and a third entry was moved past them
C3_Witness ==
    /\ IsRanking /\ Results # unranked
    /\ \E i, j \in DOMAIN unranked :
        i < j /\ unranked[i] # unranked[j] /\ SameRank(unranked[i], unranked[j])

\* C4: every disease returned shares a symptom name with the input: its
\* matched_symptoms are the input tokens among its symptom names, they are not
\* empty and its score is positive
C4_RecallFilter ==
    IsQuery =>
        \A i \in DOMAIN Results :
            /\ Results[i].matched_symptoms
                   = Filter(Input, StoreSymptomNames(graph, Results[i].uri))
            /\ Results[i].matched_symptoms # <<>>
            /\ FloatLess(Float(0, 1), Results[i].match_score)

\* a disease of the store is left out while another one is returned
C4_Witness ==
    /\ IsQuery /\ Results # <<>>
    /\ \E d \in Subjects(graph, RDF_type, MED_Disease) :
        /\ StoreSymptomNames(graph, d) \cap SeqRange(Input) = {}
        /\ \A i \in DOMAIN Results : Results[i].uri # d

\* C5: for a non-empty input, every Disease of the store linked to a symptom
\* whose name is in the input is returned
C5_CandidateCompleteness ==
    (IsQuery /\ Input # <<>>) =>
        \A d \in Candidates(graph, Input) : \E i \in DOMAIN Results : Results[i].uri = d

\* two candidates, each found through a different token, one of them matching
\* only half of the input
C5_Witness ==
    /\ IsQuery /\ Cardinality(Candidates(graph, Input)) = 2
    /\ \E i, j \in DOMAIN Results :
        /\ Results[i].matched_symptoms = <<rash>>
        /\ Results[j].matched_symptoms = <<itch>>

\* C6: the query returns the empty list, and does not raise, when no input
\* token is a symptom name of a disease of the store
C6_NoMatchIsEmpty ==
    (IsQuery /\ Candidates(graph, Input) = {}) => ret = Returned(<<>>)

\* an unknown token asked of a store that holds diseases
C6_Witness ==
    /\ IsQuery /\ Input = <<cough>>
    /\ Subjects(graph, RDF_type, MED_Disease) # {}
    /\ ret = Returned(<<>>)

\* C7: every disease returned has 0 <= match_score <= 10,
\* match_percentage = match_score * 10 and 0 <= match_percentage <= 100
C7_ScoreBounds ==
    IsQuery =>
        \A i \in DOMAIN Results :
            LET d == Results[i]
            IN /\ FloatLeq(Float(0, 1), d.match_score)
               /\ FloatLeq(d.match_score, Float(10, 1))
               /\ FloatEq(d.match_percentage, FloatTimes(d.match_score, 10))
               /\ FloatLeq(Float(0, 1), d.match_percentage)
               /\ FloatLeq(d.match_percentage, Float(100, 1))

\* a full match next to a partial one
C7_Witness ==
    /\ IsQuery
    /\ \E i, j \in DOMAIN Results :
        /\ FloatEq(Results[i].match_percentage, Float(100, 1))
        /\ FloatEq(Results[j].match_percentage, Float(50, 1))

-----------------------------------------------------------------------------
(* Properties of the enrichment lookups *)

IsLookup ==
    call[1] \in {"get_disease_details", "get_specialty_for_disease",
                 "get_precautions_for_disease"}

\* C10: the enrichment lookups never raise; get_disease_details returns None
\* for an id that is not a Disease of the store, get_specialty_for_disease
\* returns None for an id the store gives no specialty, and
\* get_precautions_for_disease returns the empty list for an id the store gives
\* no precaution
C10_LookupsNeverRaise ==
    IsLookup =>
        /\ ~ret.raised
        /\ (call[1] = "get_disease_details"
              /\ <<call[2], RDF_type, MED_Disease>> \notin graph) => ret.value = None
        /\ (call[1] = "get_specialty_for_disease"
              /\ Objects(graph, call[2], MED_treatedBy) = {}) => ret.value = None
        /\ (call[1] = "get_precautions_for_disease"
              /\ Objects(graph, call[2], MED_hasPrecaution) = {}) => ret.value = <<>>

\* an entity of the store that is no disease is looked up as one
C10_Witness ==
    /\ call = <<"get_disease_details", SymUri(rash)>>
    /\ <<SymUri(rash), RDF_type, MED_Symptom>> \in graph
    /\ ret = Returned(None)


IsGenerate == call[1] = "generate_response"

\* C9: generate_response never lets a failure of the text generator reach its
\* caller: it returns a text, and when the generator is unavailable or its call
\* raised, that text is the fallback text computed from query_results and the
\* language alone
C9_FallbackOnLlmFailure ==
    IsGenerate =>
        /\ ~ret.raised
        /\ (llm = None \/ invoked = "raised") =>
               ret.value = fallback_response(call[2][2], Lang(call[2][3]))

\* the generator raised on a query_results whose top disease has a specialty and
\* more than three precautions, and the fallback text was returned
C9_Witness ==
    /\ IsGenerate
    /\ invoked = "raised"
    /\ call[2][2] # <<>>
    /\ "specialty" \in DOMAIN call[2][2][1]
    /\ call[2][2][1].specialty # None
    /\ Len(call[2][2][1].precautions) > 3
    /\ ~ret.raised
    /\ ret.value = fallback_response(call[2][2], Lang(call[2][3]))

Served(op) == \E i \in 1..Len(page.served) : page.served[i] = op

\* C8: a snapshot that is missing or malformed is fatal at startup: the session
\* never serves an extraction or a disease query against a store that failed to
\* load
C8_LoadFailureIsFatal ==
    files.ontology # "ok" =>
        ~(Served("extract_symptoms") \/ Served("query_diseases_by_symptoms"))

-----------------------------------------------------------------------------
(* Properties of the text functions *)

IsNormalize == call[1] = "normalize_symptom_name"

\* C18: normalization is idempotent: normalizing a normalized name gives the
\* same name
C18_NormalizeIdempotent ==
    IsNormalize =>
        /\ ~ret.raised
        /\ normalize_symptom_name(ret.value) = ret.value

\* a name with a space in front, an upper-case letter and a hyphen
C18_Witness ==
    /\ call = <<"normalize_symptom_name", <<" ", "B", "-", "a">>>>
    /\ ret = Returned(<<"b", "_", "a">>)

\* what two surface forms of one name have in common: the words in lower
\* case, with one space for each run of spaces and hyphens between them
Surface(s) == Replace(CollapseSpaces(Strip(Lower(s))), "-", <<" ">>)

\* C19: two surface forms that differ only in case, in the whitespace around
\* them, in the number of spaces between words or in space versus hyphen
\* normalize to the same token
C19_SameTokenForSameSurface ==
    IsNormalize =>
        \A other \in SurfaceForms :
            Surface(other) = Surface(call[2]) => normalize_symptom_name(other) = ret.value

IsDetect == call[1] = "detect_language"

\* C20: detect_language returns 'fr' exactly when at least two distinct
\* lower-cased whitespace-separated words of the text are French function
\* words, and 'en' otherwise, also for the empty text
C20_DetectLanguage ==
    IsDetect =>
        LET distinct == { w \in SeqRange(Split(Lower(call[2]))) : w \in french_words }
        IN /\ ret.value \in {fr, en}
           /\ ret.value = fr <=> Cardinality(distinct) >= 2

\* one French word written twice, in two cases: the text stays English
C20_Witness ==
    /\ call = <<"detect_language", <<"J", "e", " ", "j", "e">>>>
    /\ ret = Returned(en)

-----------------------------------------------------------------------------
(* Properties of extract_symptoms *)

IsExtract == call[1] = "extract_symptoms"
FullMode == call[2].noun_chunks # None

\* every entry the stages of the call produced, in the order they produced them
Produced ==
    IF FullMode
    THEN Method1(symptoms_dict, Lower(call[2].text), Float(9, 10), "exact_match")
         \o Method2(symptoms_dict, Lower(call[2].text), Float(17, 20), "synonym_match")
         \o Method3(symptoms_dict, call[2].noun_chunks[1])
    ELSE Method1(symptoms_dict, Lower(call[2].text), Float(4, 5), "keyword_match")
         \o Method2(symptoms_dict, Lower(call[2].text), Float(3, 4), "synonym_keyword")

\* C12: extract_symptoms returns each token at most once, in full and in
\* fallback mode, and the entry it keeps for a token is one the stages
\* produced for it with the highest confidence of all of them
C12_OneEntryPerToken ==
    IsExtract =>
        /\ ~ret.raised
        /\ \A i, j \in 1..Len(ret.value) :
               i # j => ret.value[i].normalized # ret.value[j].normalized
        /\ LET produced == Produced
           IN \A i \in 1..Len(ret.value) :
                  /\ \E k \in 1..Len(produced) : produced[k] = ret.value[i]
                  /\ \A k \in 1..Len(produced) :
                         produced[k].normalized = ret.value[i].normalized
                             => FloatLeq(produced[k].confidence, ret.value[i].confidence)

\* a text that repeats one symptom, found by every stage of full mode
C12_Witness ==
    /\ IsExtract
    /\ call[2].text = Join(<<<<"s", "k", "i", "n", " ", "r", "a", "s", "h">>,
                             <<"s", "k", "i", "n", " ", "r", "a", "s", "h">>>>)
    /\ FullMode
    /\ Len(Produced) = 4
    /\ Len(ret.value) = 1
    /\ ret.value[1].confidence = Float(9, 10)

\* the position at which the stages first produced the token
FirstSeen(token) ==
    CHOOSE k \in 1..Len(Produced) :
        /\ Produced[k].normalized = token
        /\ \A l \in 1..(k - 1) : Produced[l].normalized # token

\* C13: the list extract_symptoms returns is in descending order of
\* confidence, entries of equal confidence in the order in which their tokens
\* were first seen, in full and in fallback mode
C13_SortedByConfidence ==
    IsExtract =>
        \A i, j \in 1..Len(ret.value) :
            i < j =>
                \/ FloatLess(ret.value[j].confidence, ret.value[i].confidence)
                \/ /\ FloatEq(ret.value[j].confidence, ret.value[i].confidence)
                   /\ FirstSeen(ret.value[i].normalized) < FirstSeen(ret.value[j].normalized)

\* full mode: one token found by a synonym only, after it one found by name
C13_Witness ==
    /\ IsExtract
    /\ FullMode
    /\ Len(ret.value) = 2
    /\ ret.value[1].confidence = Float(9, 10)
    /\ ret.value[2].confidence = Float(17, 20)
    /\ FirstSeen(ret.value[1].normalized) < FirstSeen(ret.value[2].normalized)

\* C11: the tokens of the extractor and the symptom names of the store are the
\* same: every token extract_symptoms returns is the symptomName ingestion
\* stored for the name it stands for, so that the query on it finds the
\* diseases that list the name, and every symptom name of the store is a key
\* of symptoms_dict
C11_VocabulariesCoincide ==
    IsExtract =>
        LET store_names == { LitStr(t[3]) : t \in { u \in graph : u[2] = MED_symptomName } }
        IN /\ \A i \in 1..Len(ret.value) :
                  /\ ret.value[i].normalized \in store_names
                  /\ Subjects(graph, MED_hasSymptom, SymUri(ret.value[i].symptom))
                         \subseteq { row.disease
                                     : row \in QueryRows(graph, <<ret.value[i].normalized>>) }
           /\ \A name \in store_names : HasKey(symptoms_dict, name)

\* the stages that find a token in the text of the call
ByVocabulary(token) ==
    \/ Contains(token, Lower(call[2].text))
    \/ Contains(Lower(DictGet(symptoms_dict, token)), Lower(call[2].text))
BySynonym(token) ==
    \E k \in 1..Len(symptom_synonyms) :
        /\ Contains(symptom_synonyms[k][1], Lower(call[2].text))
        /\ normalize_symptom_name(symptom_synonyms[k][2]) = token
ByNounChunk(token) ==
    /\ FullMode
    /\ \E k \in 1..Len(call[2].noun_chunks[1]) :
           normalize_symptom_name(call[2].noun_chunks[1][k]) = token

\* C17: the confidence of every entry extract_symptoms returns is in [0,1] and
\* is the one of the first stage that found its token: in full mode 0.9 for
\* the vocabulary, else 0.85 for a synonym, else 0.7 for a noun chunk; in
\* fallback mode 0.8 for the vocabulary, else 0.75 for a synonym
C17_ConfidenceByStage ==
    IsExtract =>
        \A i \in 1..Len(ret.value) :
            LET entry == ret.value[i]
                token == entry.normalized
            IN /\ FloatLeq(Float(0, 1), entry.confidence)
               /\ FloatLeq(entry.confidence, Float(1, 1))
               /\ HasKey(symptoms_dict, token)
               /\ entry.confidence =
                      IF FullMode
                      THEN (IF ByVocabulary(token) THEN Float(9, 10)
                            ELSE IF BySynonym(token) THEN Float(17, 20)
                            ELSE Float(7, 10))
                      ELSE (IF ByVocabulary(token) THEN Float(4, 5) ELSE Float(3, 4))
               /\ ByVocabulary(token) \/ BySynonym(token) \/ ByNounChunk(token)

\* fallback mode: one token found by its name and one found by a synonym only
C17_Witness ==
    /\ IsExtract
    /\ ~FullMode
    /\ Len(ret.value) = 2
    /\ ret.value[1].confidence = Float(4, 5)
    /\ ret.value[2].confidence = Float(3, 4)
    /\ ~ByVocabulary(ret.value[2].normalized)

\* the text of the call holds no key of symptoms_dict, no display form and no
\* synonym of a key
NoVocabularyHit ==
    \A k \in 1..Len(symptoms_dict) :
        ~ByVocabulary(symptoms_dict[k][1]) /\ ~BySynonym(symptoms_dict[k][1])

\* C14: extract_symptoms returns the empty list, and does not raise, for the
\* empty text and for every text that holds no vocabulary token, display form
\* or accepted synonym, in full and in fallback mode
C14_NoHitIsEmpty ==
    IsExtract /\ NoVocabularyHit => ret = Returned(<<>>)

\* C14 as amended: ... and of which, in full mode, no noun chunk normalizes
\* to a vocabulary token
C14_NoHitNoChunkIsEmpty ==
    IsExtract /\ NoVocabularyHit
              /\ (\A k \in 1..Len(symptoms_dict) : ~ByNounChunk(symptoms_dict[k][1]))
        => ret = Returned(<<>>)

\* full mode, a vocabulary of two names, a text none of them is in and that
\* is a noun chunk
C14_Witness ==
    /\ IsExtract
    /\ FullMode
    /\ Len(symptoms_dict) = 2
    /\ call[2].text = <<"j", "e">>
    /\ call[2].noun_chunks = Some(<<<<"j", "e">>>>)
    /\ ret = Returned(<<>>)

\* the list `fallback` is the list `full` without the entries of the noun
\* chunks, with the confidences and the method names of fallback mode
FallbackOf(fallback, full) ==
    /\ \A i \in 1..Len(fallback) :
           \E j \in 1..Len(full) :
               /\ DOMAIN fallback[i] = DOMAIN full[j]
               /\ fallback[i].normalized = full[j].normalized
               /\ fallback[i].symptom = full[j].symptom
               /\ <<fallback[i].confidence, fallback[i].method,
                    full[j].confidence, full[j].method>>
                  \in { <<Float(4, 5), "keyword_match", Float(9, 10), "exact_match">>,
                        <<Float(3, 4), "synonym_keyword", Float(17, 20), "synonym_match">> }
    /\ LET IsStage12(entry) == entry.method # "noun_chunk"
           kept == SelectSeq(full, IsStage12)
       IN /\ Len(kept) = Len(fallback)
          /\ \A i \in 1..Len(kept) : kept[i].normalized = fallback[i].normalized

HeadachePhrases ==
    { <<"m", "a", "l", " ", "d", "e", " ", "t", "ê", "t", "e">>,
      <<"m", "a", "u", "x", " ", "d", "e", " ", "t", "ê", "t", "e">>,
      <<"c", "é", "p", "h", "a", "l", "é", "e">>,
      <<"h", "e", "a", "d", "a", "c", "h", "e", "s">> }

\* the entry of the token headache, when the text holds one of the phrases,
\* has the confidences `full` and `fallback` of the two modes
HeadacheConfidence(full, fallback) ==
    \A phrase \in HeadachePhrases :
        Contains(phrase, Lower(call[2].text)) =>
            IF HasKey(symptoms_dict, <<"h", "e", "a", "d", "a", "c", "h", "e">>)
            THEN \E i \in 1..Len(ret.value) :
                     /\ ret.value[i].normalized = <<"h", "e", "a", "d", "a", "c", "h", "e">>
                     /\ ret.value[i].confidence = IF FullMode THEN full ELSE fallback
            ELSE \A i \in 1..Len(ret.value) :
                     ret.value[i].normalized # <<"h", "e", "a", "d", "a", "c", "h", "e">>

\* C16: a text that holds a synonym phrase of headache yields the token
\* headache with confidence 0.85 in full mode and 0.75 in fallback mode when
\* headache is in the vocabulary, and no entry for it when it is not
C16_SynonymConfidence ==
    IsExtract => HeadacheConfidence(Float(17, 20), Float(3, 4))

\* C16 as amended: ... with confidence 0.85 (0.75) unless the text also holds
\* the token headache or its display form, as every text with the phrase
\* 'headaches' does: then with confidence 0.9 (0.8)
C16_SynonymConfidenceUnlessNamed ==
    IsExtract =>
        IF HasKey(symptoms_dict, <<"h", "e", "a", "d", "a", "c", "h", "e">>) /\ ByVocabulary(<<"h", "e", "a", "d", "a", "c", "h", "e">>)
        THEN HeadacheConfidence(Float(9, 10), Float(4, 5))
        ELSE HeadacheConfidence(Float(17, 20), Float(3, 4))

\* full mode, a French phrase for headache and headache in the vocabulary
C16_Witness ==
    /\ IsExtract
    /\ FullMode
    /\ call[2].text = <<"m", "a", "l", " ", "d", "e", " ", "t", "ê", "t", "e">>
    /\ Len(ret.value) = 1
    /\ ret.value[1].normalized = <<"h", "e", "a", "d", "a", "c", "h", "e">>
    /\ ret.value[1].confidence = Float(17, 20)

-----------------------------------------------------------------------------
(* The store after load: C21 *)

\* the entities a load creates, found through the names it wrote: each name
\* literal belongs to the entity that ingestion derives from that name
LoadedEntities(g, name_predicate, UriOf(_)) ==
    { UriOf(LitStr(t[3])) : t \in {u \in g : u[2] = name_predicate} }

\* C21: no call of the read operations changes the triples of the store, so
\* the statistics are the same before and after every call; and the counts
\* that get_graph_statistics returns are the numbers of distinct Disease,
\* Symptom, MedicalSpecialty and Department entities that were loaded
C21_StoreImmutable ==
    [][ /\ graph' = graph
        /\ get_graph_statistics(graph') = get_graph_statistics(graph)
        /\ call'[1] = "get_graph_statistics" =>
               /\ ret'.value.total_triples = Cardinality(graph)
               /\ ret'.value.diseases =
                      Cardinality(LoadedEntities(graph, MED_diseaseName, DiseaseUri))
               /\ ret'.value.symptoms =
                      Cardinality(LoadedEntities(graph, MED_symptomName, SymUri))
               /\ ret'.value.specialties =
                      Cardinality(LoadedEntities(graph, MED_specialtyName, SpecUri))
               /\ ret'.value.departments =
                      Cardinality(LoadedEntities(graph, MED_departmentName, DeptUri))
      ]_vars

\* the statistics of a store of two diseases that share their one symptom
C21_Witness ==
    /\ call[1] = "get_graph_statistics"
    /\ ret.value.diseases = 2
    /\ ret.value.symptoms = 1
    /\ ret.value.specialties >= 1
    /\ ret.value.departments = 1

-----------------------------------------------------------------------------
(* Determinism: C22 *)

\* C22: the output of an extraction is the same for every order in which the
\* set of symptom names of the same data may be iterated when the extractor
\* is built: the same entries, in the same order, with the same display forms
C22_ExtractionDeterministic ==
    IsExtract =>
        \A dict \in SymptomsDicts(medical_data) :
            extract_symptoms(dict, call[2].text, call[2].noun_chunks) = ret.value

-----------------------------------------------------------------------------
(* Stores of source data whose disease names share an entity, and a query   *)
(* whose evaluation fails part-way: C23, C29, C30                           *)

hep_paren == <<"h", "e", "p", " ", "(", "b", ")">>

\* disease records whose names differ by parentheses only: dis_safe, and so
\* the entity, is the same for both
MergedRecords ==
    [ disease : {hep_b, hep_paren},
      symptoms : { {SymptomRecord(rash)}, {SymptomRecord(rash), SymptomRecord(itch)} },
      urgency : {low, high},
      specialty : {Dermatology},
      department : {SkinDept},
      available_slots : {<<"5">>} ]

\* query_diseases_by_symptoms when iterating qres raises after `consumed` rows
\* were appended to results: the except clause logs, rank_diseases is skipped
\* and `return results` hands out what was appended
QueryInterrupted(g, symptom_names, rows, order, consumed) ==
    Returned(SubSeq(QueryResults(g, symptom_names, rows, order), 1, consumed))

query_diseases_by_symptoms_interrupted ==
    /\ call = NoCall
    /\ \E symptom_names \in SeqsUpTo(Tokens, MaxInput) \ {<<>>} :
         \E rows \in Perms(QueryRows(graph, symptom_names)),
            order \in Perms(SymptomSolutions(graph)) :
           \E consumed \in 0..(IF rows = <<>> THEN 0 ELSE Len(rows) - 1) :
               /\ call' = <<"query_diseases_by_symptoms", symptom_names,
                            [consumed |-> consumed]>>
               /\ ret' = QueryInterrupted(graph, symptom_names, rows, order, consumed)
               /\ unranked' = ret'.value
               /\ UNCHANGED <<graph, ragVars, appVars>>

\* a store loaded from source data as process_disease_data writes it: one
\* record for each disease name
InitAnyStore ==
    /\ \E data \in SourceData(MergedRecords) :
           /\ \A i, j \in 1..Len(data.diseases) :
                  data.diseases[i].disease = data.diseases[j].disease => i = j
           /\ graph = populate_knowledge_graph(data)
    /\ unranked = <<>>
    /\ call = NoCall
    /\ ret = Returned(<<>>)
    /\ llm = None
    /\ conversation_history = <<>>
    /\ invoked = "not_called"
    /\ NoApp

NextAnyStore ==
    \/ query_diseases_by_symptoms
    \/ query_diseases_by_symptoms_interrupted
    \/ get_disease_details_call
    \/ request_done

SpecAnyStore == InitAnyStore /\ [][NextAnyStore]_vars

IsCompletedQuery == IsQuery /\ Len(call) = 2
IsInterruptedQuery == IsQuery /\ Len(call) = 3

\* C23: for every entry r that query_diseases_by_symptoms returned,
\* get_disease_details(r.uri) finds the disease, with the name, the urgency
\* and the symptoms of r; the symptom list is the same list when the store
\* yields the symptom rows in the order it did for r
C23_DetailsAgreeWithRanking ==
    IsCompletedQuery =>
        \A i \in 1..Len(Results) :
            LET r == Results[i]
                details == get_disease_details(graph, r.uri)
            IN /\ \A d \in details :
                      /\ ~d.raised
                      /\ d.value # None
                      /\ d.value[1].name = r.name
                      /\ d.value[1].urgency = r.urgency
                      /\ SeqRange(d.value[1].symptoms) = SeqRange(r.symptoms)
               /\ \E d \in details : d.value[1].symptoms = r.symptoms

\* C29: a query whose evaluation failed returns the empty list
C29_FailedQueryIsEmpty ==
    IsInterruptedQuery => ret = Returned(<<>>)

\* C30: no two entries of the list returned by query_diseases_by_symptoms
\* are about the same disease entity
C30_OneEntryPerDisease ==
    IsCompletedQuery =>
        \A i, j \in 1..Len(Results) : Results[i].uri = Results[j].uri => i = j

-----------------------------------------------------------------------------
(* The list of specialties: C24 *)

\* C24: on a store whose statistics count at least one specialty,
\* get_all_specialties returns a non-empty list that holds the name of every
\* specialty that get_specialty_for_disease returns for a disease
C24_AllSpecialtiesListed ==
    (call[1] = "get_all_specialties" /\ get_graph_statistics(graph).specialties > 0) =>
        /\ ~ret.raised
        /\ ret.value # <<>>
        /\ \A id \in Ids : \A s \in get_specialty_for_disease(graph, id) :
               s.value # None => s.value[1].specialty \in SeqRange(ret.value)

-----------------------------------------------------------------------------
(* Urgency levels: C25 *)

\* the urgency a result must carry for the entity: medium when the store has
\* no urgency for it or an empty one, one of the three levels otherwise
UrgencyAllowed(uri, urgency) ==
    /\ urgency \in {low, medium, high}
    /\ (\A u \in Objects(graph, uri, MED_urgencyLevel) : ~Truthy(u)) => urgency = medium

\* C25: every result of query_diseases_by_symptoms and of get_disease_details
\* carries an urgency that is low, medium or high, and medium when the store
\* has no urgency, or an empty one, for the disease
C25_UrgencyIsALevel ==
    /\ IsQuery => \A i \in 1..Len(Results) :
                      UrgencyAllowed(Results[i].uri, Results[i].urgency)
    /\ (call[1] = "get_disease_details" /\ ret.value # None) =>
           UrgencyAllowed(ret.value[1].uri, ret.value[1].urgency)

-----------------------------------------------------------------------------
(* The components of a session: C26 *)

\* C26: in every rerun of a session, components that were loaded stay
\* loaded and are the same objects after the rerun, so they are constructed
\* at most once; and a rerun that extracts or queries ends with
\* components_loaded true (the load came first), while a rerun that ends
\* with components_loaded false served nothing
C26_ComponentsLoadedOnce ==
    [][ /\ session.components_loaded =>
               /\ session'.components_loaded
               /\ graph' = graph
               /\ medical_data' = medical_data
               /\ llm' = llm
        /\ page'.served # <<>> => session'.components_loaded
        /\ ~session'.components_loaded => session'.messages = session.messages
      ]_vars

\* a prompt was answered in a rerun after the one of a new conversation: the
\* session went through several reruns with its components
C26_Witness ==
    /\ session.components_loaded
    /\ session.conversation_count = 1
    /\ "generate_response" \in SeqRange(page.served)
    /\ llm # None

-----------------------------------------------------------------------------
(* The conversation history: C27 *)

\* C27: a generate_response call whose llm.invoke returned appends its
\* user_input and its response, in this order, to conversation_history; a
\* call that fell back (no llm, or invoke raised) leaves it unchanged;
\* reset_conversation empties it, and nothing else makes it shorter; so it
\* always has even length, with the user inputs at the positions 0, 2, ...
\* and the responses at the positions 1, 3, ... of the list
C27_HistoryOfSuccessfulPairs ==
    [][ /\ (call'[1] = "generate_response" /\ invoked' = "returned") =>
               conversation_history' = conversation_history \o <<call'[2][1], ret'.value>>
        /\ (call'[1] = "generate_response" /\ invoked' # "returned") =>
               conversation_history' = conversation_history
        /\ call'[1] = "reset_conversation" => conversation_history' = <<>>
        /\ call'[1] = "none" => conversation_history' = conversation_history
        /\ Len(conversation_history') < Len(conversation_history) =>
               call'[1] = "reset_conversation"
        /\ Len(conversation_history') % 2 = 0
        /\ \A i \in 1..Len(conversation_history') :
               IF i % 2 = 1 THEN conversation_history'[i] \in UserInputs
               ELSE conversation_history'[i] \in Responses
      ]_vars

\* a call that fell back because invoke raised, after one successful exchange
C27_Witness ==
    /\ call[1] = "generate_response"
    /\ invoked = "raised"
    /\ Len(conversation_history) = 2
    /\ conversation_history[1] \in UserInputs
    /\ conversation_history[2] \in Responses

-----------------------------------------------------------------------------
(* Repeated tokens: C28 *)

\* the list without the repeats of a token: each token at its first place
RECURSIVE WithoutRepeats(_)
WithoutRepeats(s) ==
    IF s = <<>> THEN <<>>
    ELSE LET front == WithoutRepeats(SubSeq(s, 1, Len(s) - 1))
         IN IF s[Len(s)] \in SeqRange(front) THEN front ELSE Append(front, s[Len(s)])

\* C28: every result of query_diseases_by_symptoms has the match_score and
\* the matched_symptoms that the input without its repeated tokens gives, so
\* a disease that has every distinct token of the input scores 10
C28_ScoreOfTheTokenSet ==
    IsCompletedQuery =>
        \A i \in 1..Len(Results) :
            LET r == Results[i]
            IN /\ FloatEq(r.match_score,
                          calculate_match_score(WithoutRepeats(Input), r.symptoms))
               /\ r.matched_symptoms = matched_symptoms(WithoutRepeats(Input), r.symptoms)
               /\ SeqRange(Input) \subseteq SeqRange(r.symptoms) =>
                      FloatEq(r.match_score, Float(10, 1))

====
